---- MODULE Spec2Model ----
(***************************************************************************)
(* Model of Notebooks/crime_report_database.ipynb: the psycopg2 statements *)
(* of the notebook, run in cell order against a PostgreSQL server, and the *)
(* sessions other roles open against the provisioned database.             *)
(*                                                                         *)
(* The server is a catalog (databases, schemas, tables, roles, ACLs, the   *)
(* table's rows and its SERIAL sequence).  db is the committed catalog,    *)
(* txn the catalog as seen inside the open transaction of a connection     *)
(* that is not in autocommit mode.                                         *)
(***************************************************************************)
EXTENDS Integers, Sequences, FiniteSets, TLC

\* ------------------------------------------------------------------ bounds
MaxRows == 2     \* data records of data/boston.csv range over 1..MaxRows
MaxRuns == 2     \* times the notebook is started (first run + re-runs)
MaxSeq  == 3     \* values drawn from the SERIAL sequence by client inserts
MaxLines == 2      \* invoice lines of a database of data/chinook.db
MaxOrders == 2     \* invoices of one customer of data/chinook.db
BulkInvoices == 16 \* invoices of a database with one line to each invoice

\* ------------------------------------------------------------------- names
PUBLIC     == "PUBLIC"
Superusers == {"postgres"}
Groups     == {"readonly", "readwrite"}
Users      == {"data_analyst", "data_scientist"}
\* a login role of the cluster the notebook never mentions
Outsider   == "guest"
\* the roles a session may try to log in as
Clients    == Users \cup Groups \cup {Outsider} \cup Superusers
TablePrivs == {"SELECT", "INSERT", "UPDATE", "DELETE"}
BostonCrimes == <<"crimes", "boston_crimes">>
WeekdayEnum  == <<"public", "weekday_enum">>

\* --------------------------------------------------------------- catalogs
\* The cluster before the notebook has ever run: no crime_db, only the
\* roles the notebook connects as or never touches.
Pristine ==
  [ databases |-> {"postgres"},
    dbAcl     |-> {},        \* <<grantee, privilege>> on database crime_db
    schemas   |-> {},        \* schemas of crime_db
    schemaAcl |-> {},        \* <<schema, grantee, privilege>>
    types     |-> {},        \* <<schema, type>>
    tables    |-> {},        \* <<schema, table>>
    tableAcl  |-> {},        \* <<table, grantee, privilege>>
    seqAcl    |-> {},        \* <<grantee, privilege>> on boston_crimes_incident_number_seq
    rows      |-> {},        \* incident_number of each row of crimes.boston_crimes
    seq       |-> 0,         \* last value handed out by the SERIAL sequence
    roles     |-> Superusers \cup {Outsider},
    login     |-> Superusers \cup {Outsider},
    member    |-> {} ]       \* <<member, group>>

\* the outcome of one statement: the catalog it leaves, or the error raised
Ok(cat)      == [cat |-> cat, err |-> ""]
Raise(cat, e) == [cat |-> cat, err |-> e]

\* roles whose privileges role u may use: itself, PUBLIC, and the groups it
\* is a (direct or indirect) member of
RECURSIVE Closure(_, _)
Closure(cat, S) ==
  LET T == S \cup {m[2] : m \in {x \in cat.member : x[1] \in S}}
  IN  IF T = S THEN S ELSE Closure(cat, T)

Grantees(cat, u) == Closure(cat, {u}) \cup {PUBLIC}

HasDbPriv(cat, u, p) ==
  u \in Superusers \/ \E g \in Grantees(cat, u) : <<g, p>> \in cat.dbAcl

HasSchemaPriv(cat, s, u, p) ==
  u \in Superusers \/ \E g \in Grantees(cat, u) : <<s, g, p>> \in cat.schemaAcl

HasTablePriv(cat, t, u, p) ==
  u \in Superusers \/ \E g \in Grantees(cat, u) : <<t, g, p>> \in cat.tableAcl

HasSeqPriv(cat, u, p) ==
  u \in Superusers \/ \E g \in Grantees(cat, u) : <<g, p>> \in cat.seqAcl

\* whether role r is named by an ACL (DROP ROLE refuses such a role)
HasDependents(cat, r) ==
  \/ \E a \in cat.dbAcl : a[1] = r
  \/ \E a \in cat.schemaAcl : a[2] = r
  \/ \E a \in cat.tableAcl : a[2] = r
  \/ \E a \in cat.seqAcl : a[1] = r

\* ------------------------------------------------- effects of statements
\* Each operator is one SQL statement of the notebook applied to the
\* catalog cat it runs against; autocommit says whether the connection is
\* in autocommit mode, others whether another session is connected to
\* crime_db.

\* DROP DATABASE IF EXISTS crime_db;
DropDatabaseFx(cat, autocommit, others) ==
  IF ~autocommit THEN Raise(cat, "active_sql_transaction")
  ELSE IF "crime_db" \notin cat.databases THEN Ok(cat)
  ELSE IF others THEN Raise(cat, "object_in_use")
  ELSE Ok([cat EXCEPT !.databases = @ \ {"crime_db"},
                      !.dbAcl = {}, !.schemas = {}, !.schemaAcl = {},
                      !.types = {}, !.tables = {}, !.tableAcl = {},
                      !.seqAcl = {}, !.rows = {}, !.seq = 0])

\* DROP GROUP IF EXISTS r;  DROP USER IF EXISTS r;  (both are DROP ROLE)
DropRoleFx(cat, r) ==
  IF r \notin cat.roles THEN Ok(cat)
  ELSE IF HasDependents(cat, r) THEN Raise(cat, "dependent_objects_still_exist")
  ELSE Ok([cat EXCEPT !.roles = @ \ {r}, !.login = @ \ {r},
                      !.member = {m \in @ : m[1] # r /\ m[2] # r}])

\* CREATE DATABASE crime_db;  a new database carries the default ACLs:
\* PUBLIC may connect and create temporary tables, and schema public is
\* open to PUBLIC.
CreateDatabaseFx(cat, autocommit) ==
  IF ~autocommit THEN Raise(cat, "active_sql_transaction")
  ELSE IF "crime_db" \in cat.databases THEN Raise(cat, "duplicate_database")
  ELSE Ok([cat EXCEPT !.databases = @ \cup {"crime_db"},
                      !.dbAcl = {<<PUBLIC, "CONNECT">>, <<PUBLIC, "TEMPORARY">>},
                      !.schemas = {"public"},
                      !.schemaAcl = {<<"public", PUBLIC, "USAGE">>,
                                     <<"public", PUBLIC, "CREATE">>}])

\* CREATE SCHEMA s;
CreateSchemaFx(cat, s) ==
  IF s \in cat.schemas THEN Raise(cat, "duplicate_schema")
  ELSE Ok([cat EXCEPT !.schemas = @ \cup {s}])

\* CREATE TYPE weekday_enum AS ENUM (...);  unqualified, so in schema public
CreateTypeFx(cat) ==
  IF "public" \notin cat.schemas THEN Raise(cat, "invalid_schema_name")
  ELSE IF WeekdayEnum \in cat.types THEN Raise(cat, "duplicate_object")
  ELSE Ok([cat EXCEPT !.types = @ \cup {WeekdayEnum}])

\* CREATE TABLE with the schema qualifier left out: the table lands in public
CreateTablePublicFx(cat) ==
  IF "public" \notin cat.schemas THEN Raise(cat, "invalid_schema_name")
  ELSE IF <<"public", BostonCrimes[2]>> \in cat.tables THEN Raise(cat, "duplicate_table")
  ELSE IF WeekdayEnum \notin cat.types THEN Raise(cat, "undefined_object")
  ELSE Ok([cat EXCEPT !.tables = @ \cup {<<"public", BostonCrimes[2]>>},
                      !.rows = {}, !.seq = 0, !.seqAcl = {}])

\* CREATE TABLE crimes.boston_crimes (incident_number SERIAL PRIMARY KEY, ...
\* day_of_the_week weekday_enum, ...);  SERIAL creates the table's sequence,
\* which starts before its first value.
CreateTableFx(cat) ==
  IF BostonCrimes[1] \notin cat.schemas THEN Raise(cat, "invalid_schema_name")
  ELSE IF BostonCrimes \in cat.tables THEN Raise(cat, "duplicate_table")
  ELSE IF WeekdayEnum \notin cat.types THEN Raise(cat, "undefined_object")
  ELSE Ok([cat EXCEPT !.tables = @ \cup {BostonCrimes},
                      !.rows = {}, !.seq = 0, !.seqAcl = {}])

\* ------------------------------------------------------ data/boston.csv
\* The file as csv.reader delivers it: a sequence of lines, each a sequence
\* of text fields; the first line is the header.
Header ==
  <<"incident_number", "offense_code", "description", "date",
    "day_of_the_week", "lat", "long">>

\* the first records of the file, as the notebook prints them
FileRecords ==
  << <<"1", "619", "LARCENY ALL OTHERS", "2018-09-02", "Sunday",
       "42.35779134", "-71.13937053">>,
     <<"2", "1402", "VANDALISM", "2018-08-21", "Tuesday",
       "42.30682138", "-71.06030035">>,
     <<"3", "3410", "TOWED MOTOR VEHICLE", "2018-09-03", "Monday",
       "42.34658879", "-71.07242943">> >>

\* the file with its first n records
FirstRecords(n) == <<Header>> \o SubSeq(FileRecords, 1, n)

\* the columns of crimes.boston_crimes in the order CREATE TABLE gives them
Columns ==
  << [name |-> "incident_number", type |-> "serial"],
     [name |-> "offense_code",    type |-> "smallint"],
     [name |-> "description",     type |-> "varchar"],
     [name |-> "date",            type |-> "date"],
     [name |-> "day_of_the_week", type |-> "weekday_enum"],
     [name |-> "lat",             type |-> "decimal"],
     [name |-> "long",            type |-> "decimal"] >>

\* description VARCHAR(116)
VarcharLimit == 116

\* CREATE TYPE weekday_enum AS ENUM ('Sunday', ..., 'Saturday')
WeekdayLabels ==
  {"Sunday", "Monday", "Tuesday", "Wednesday", "Thursday", "Friday", "Saturday"}

\* A column holds at most one value: <<>> is NULL, <<v>> the value v.
Null == <<>>
\* the outcome of reading one text field into a column
Value(v) == [err |-> "", val |-> <<v>>]
Bad(e)   == [err |-> e, val |-> Null]

\* The input functions of the column types, as tables from the texts that
\* occur in the modelled files to the values they denote.
\* integer: decimal digits, leading zeros allowed
Numerals ==
  { <<"1", 1>>, <<"2", 2>>, <<"3", 3>>, <<"01", 1>>, <<"02", 2>>,
    <<"619", 619>>, <<"0619", 619>>, <<"1402", 1402>>, <<"3410", 3410>>,
    <<"40000", 40000>> }
IntegerIn(t) ==
  IF \E p \in Numerals : p[1] = t
    THEN Value((CHOOSE p \in Numerals : p[1] = t)[2])
    ELSE Bad("invalid_text_representation")

\* smallint: an integer of 16 bits
SmallintIn(t) ==
  LET r == IntegerIn(t)
  IN  IF r.err # "" THEN r
      ELSE IF r.val[1] < -32768 \/ r.val[1] > 32767
        THEN Bad("numeric_value_out_of_range")
      ELSE r

\* varchar(n): the text itself, refused when longer than n
VarcharIn(t) ==
  IF Len(t) > VarcharLimit THEN Bad("string_data_right_truncation") ELSE Value(t)

\* date, ISO 8601: <<year, month, day>>
Dates ==
  { <<"2018-09-02", <<2018, 9, 2>>>>, <<"2018-08-21", <<2018, 8, 21>>>>,
    <<"2018-09-03", <<2018, 9, 3>>>>, <<"2018-9-2", <<2018, 9, 2>>>> }
DateIn(t) ==
  IF \E p \in Dates : p[1] = t
    THEN Value((CHOOSE p \in Dates : p[1] = t)[2])
    ELSE Bad("invalid_datetime_format")

\* weekday_enum: one of the labels of the type
EnumIn(t) ==
  IF t \in WeekdayLabels THEN Value(t) ELSE Bad("invalid_text_representation")

\* decimal: sign, integer part, digits after the point
Decimals ==
  { <<"42.35779134",  [neg |-> FALSE, int |-> 42, frac |-> "35779134"]>>,
    <<"42.30682138",  [neg |-> FALSE, int |-> 42, frac |-> "30682138"]>>,
    <<"42.34658879",  [neg |-> FALSE, int |-> 42, frac |-> "34658879"]>>,
    <<"-71.13937053", [neg |-> TRUE,  int |-> 71, frac |-> "13937053"]>>,
    <<"-71.06030035", [neg |-> TRUE,  int |-> 71, frac |-> "06030035"]>>,
    <<"-71.07242943", [neg |-> TRUE,  int |-> 71, frac |-> "07242943"]>>,
    <<"+42.35779134", [neg |-> FALSE, int |-> 42, frac |-> "35779134"]>> }
DecimalIn(t) ==
  IF \E p \in Decimals : p[1] = t
    THEN Value((CHOOSE p \in Decimals : p[1] = t)[2])
    ELSE Bad("invalid_text_representation")

\* one field read into a column of the given type; in CSV format an empty
\* unquoted field is NULL
FromText(type, t) ==
  IF t = "" THEN [err |-> "", val |-> Null]
  ELSE CASE type = "serial"       -> IntegerIn(t)
         [] type = "smallint"     -> SmallintIn(t)
         [] type = "varchar"      -> VarcharIn(t)
         [] type = "date"         -> DateIn(t)
         [] type = "weekday_enum" -> EnumIn(t)
         [] type = "decimal"      -> DecimalIn(t)

\* one line of the file read into a row: field k goes to column k; the
\* primary key takes no NULL
RowOf(line) ==
  LET read == [k \in 1..Len(Columns) |-> FromText(Columns[k].type, line[k])]
      bad  == {k \in 1..Len(Columns) : read[k].err # ""}
      k0   == CHOOSE k \in bad : \A j \in bad : k <= j
  IN  IF bad # {} THEN [err |-> read[k0].err, row |-> <<>>]
      ELSE IF read[1].val = Null THEN [err |-> "not_null_violation", row |-> <<>>]
      ELSE [err |-> "",
            row |-> [c \in {Columns[k].name : k \in 1..Len(Columns)} |->
                       read[CHOOSE k \in 1..Len(Columns) : Columns[k].name = c].val]]

\* the lines from line i on are added to rows one by one; the first line
\* that cannot be read, or that repeats a primary key, ends the COPY with an
\* error and nothing is loaded
RECURSIVE CopyLines(_, _, _)
CopyLines(file, i, rows) ==
  IF i > Len(file) THEN [err |-> "", rows |-> rows]
  ELSE IF Len(file[i]) # Len(Columns)
    THEN [err |-> "bad_copy_file_format", rows |-> {}]
  ELSE LET r == RowOf(file[i])
       IN  IF r.err # "" THEN [err |-> r.err, rows |-> {}]
           ELSE IF \E x \in rows : x.incident_number = r.row.incident_number
             THEN [err |-> "unique_violation", rows |-> {}]
           ELSE CopyLines(file, i + 1, rows \cup {r.row})

\* COPY without the HEADER option: the first line is data as well
CopyInHeaderLoaded(file) == CopyLines(file, 1, {})

\* COPY crimes.boston_crimes FROM STDIN WITH CSV HEADER into the empty table:
\* the first line is skipped unread
CopyIn(file) == CopyLines(file, 2, {})

\* COPY crimes.boston_crimes FROM STDIN WITH CSV HEADER;  the file has n
\* data records whose incident_number field counts 1..n.  Every column is
\* taken from the file, so the sequence is not consulted and keeps its value.
CopyFx(cat, n) ==
  LET load == CopyIn(FirstRecords(n))
      keys == {r.incident_number[1] : r \in load.rows}
  IN  IF BostonCrimes \notin cat.tables THEN Raise(cat, "undefined_table")
      ELSE IF load.err # "" THEN Raise(cat, load.err)
      ELSE IF cat.rows \cap keys # {} THEN Raise(cat, "unique_violation")
      ELSE Ok([cat EXCEPT !.rows = @ \cup keys])

\* REVOKE ALL ON SCHEMA s FROM g;
RevokeSchemaFx(cat, s, g) ==
  IF s \notin cat.schemas THEN Raise(cat, "invalid_schema_name")
  ELSE Ok([cat EXCEPT !.schemaAcl = {a \in @ : ~(a[1] = s /\ a[2] = g)}])

\* REVOKE ALL ON DATABASE crime_db FROM g;
RevokeDatabaseFx(cat, g) ==
  IF "crime_db" \notin cat.databases THEN Raise(cat, "invalid_catalog_name")
  ELSE Ok([cat EXCEPT !.dbAcl = {a \in @ : a[1] # g}])

\* CREATE GROUP g with the NOLOGIN option taken for LOGIN
CreateGroupLoginFx(cat, g) ==
  IF g \in cat.roles THEN Raise(cat, "duplicate_object")
  ELSE Ok([cat EXCEPT !.roles = @ \cup {g}, !.login = @ \cup {g}])

\* CREATE GROUP g NOLOGIN;
CreateGroupFx(cat, g) ==
  IF g \in cat.roles THEN Raise(cat, "duplicate_object")
  ELSE Ok([cat EXCEPT !.roles = @ \cup {g}])

\* CREATE USER u WITH PASSWORD '...';  CREATE USER implies LOGIN
CreateUserFx(cat, u) ==
  IF u \in cat.roles THEN Raise(cat, "duplicate_object")
  ELSE Ok([cat EXCEPT !.roles = @ \cup {u}, !.login = @ \cup {u}])

\* GRANT privs ON DATABASE crime_db TO g;
GrantDatabaseFx(cat, privs, g) ==
  IF "crime_db" \notin cat.databases THEN Raise(cat, "invalid_catalog_name")
  ELSE IF g \notin cat.roles \cup {PUBLIC} THEN Raise(cat, "undefined_object")
  ELSE Ok([cat EXCEPT !.dbAcl = @ \cup {<<g, p>> : p \in privs}])

\* GRANT privs ON SCHEMA s TO g;
GrantSchemaFx(cat, s, privs, g) ==
  IF s \notin cat.schemas THEN Raise(cat, "invalid_schema_name")
  ELSE IF g \notin cat.roles \cup {PUBLIC} THEN Raise(cat, "undefined_object")
  ELSE Ok([cat EXCEPT !.schemaAcl = @ \cup {<<s, g, p>> : p \in privs}])

\* GRANT privs ON ALL TABLES IN SCHEMA s TO g;  the tables the schema holds
\* now; sequences are not tables
GrantTablesFx(cat, s, privs, g) ==
  IF s \notin cat.schemas THEN Raise(cat, "invalid_schema_name")
  ELSE IF g \notin cat.roles \cup {PUBLIC} THEN Raise(cat, "undefined_object")
  ELSE Ok([cat EXCEPT !.tableAcl =
             @ \cup {<<t, g, p>> : t \in {x \in cat.tables : x[1] = s}, p \in privs}])

\* GRANT g TO u;
GrantRoleFx(cat, g, u) ==
  IF g \notin cat.roles \/ u \notin cat.roles THEN Raise(cat, "undefined_object")
  ELSE Ok([cat EXCEPT !.member = @ \cup {<<u, g>>}])

\* ------------------------------------------------------------ the notebook
\* One record per driver call, in source order; line is the call's line in
\* crime_report_database.ipynb.
St(op, obj, who, privs, line) ==
  [op |-> op, obj |-> obj, who |-> who, privs |-> privs, line |-> line]

\* the preamble without the DROP USER of data_scientist
Cell2KeepsScientist ==
  << St("connect", "postgres", "postgres", {}, 35),
     St("autocommit", "", "", {}, 36),
     St("cursor", "", "", {}, 37),
     St("drop_database", "crime_db", "", {}, 38),
     St("drop_role", "", "readonly", {}, 39),
     St("drop_role", "", "readwrite", {}, 40),
     St("drop_role", "", "data_analyst", {}, 41),
     St("close", "", "", {}, 43) >>

\* cell "DROP ... IF EXISTS" preamble
Cell2 ==
  << St("connect", "postgres", "postgres", {}, 35),
     St("autocommit", "", "", {}, 36),
     St("cursor", "", "", {}, 37),
     St("drop_database", "crime_db", "", {}, 38),
     St("drop_role", "", "readonly", {}, 39),
     St("drop_role", "", "readwrite", {}, 40),
     St("drop_role", "", "data_analyst", {}, 41),
     St("drop_role", "", "data_scientist", {}, 42),
     St("close", "", "", {}, 43) >>

\* cell CREATE DATABASE
Cell4 ==
  << St("connect", "postgres", "postgres", {}, 60),
     St("autocommit", "", "", {}, 61),
     St("cursor", "", "", {}, 62),
     St("create_database", "crime_db", "", {}, 63),
     St("close", "", "", {}, 64) >>

\* cell connect to crime_db, CREATE SCHEMA
Cell6 ==
  << St("connect", "crime_db", "postgres", {}, 81),
     St("cursor", "", "", {}, 82),
     St("create_schema", "crimes", "", {}, 83) >>

\* cells CREATE TYPE, CREATE TABLE, COPY, SELECT ... LIMIT 3
Cell22 == << St("create_type", "weekday_enum", "", {}, 339) >>
Cell24 == << St("create_table", "boston_crimes", "", {}, 367) >>
Cell26 == << St("copy", "boston_crimes", "", {}, 385) >>
Cell28 == << St("select", "rows", "", {}, 412) >>

\* cell REVOKE
Cell31 ==
  << St("revoke_schema", "public", PUBLIC, {}, 440),
     St("revoke_database", "crime_db", PUBLIC, {}, 441) >>

\* Cell33 with DELETE left out of the readwrite grant
Cell33NoDelete ==
  << St("create_group", "", "readonly", {}, 459),
     St("create_group", "", "readwrite", {}, 460),
     St("grant_database", "crime_db", "readonly", {"CONNECT"}, 463),
     St("grant_database", "crime_db", "readwrite", {"CONNECT"}, 464),
     St("grant_schema", "crimes", "readonly", {"USAGE"}, 467),
     St("grant_schema", "crimes", "readonly", {"USAGE"}, 468),
     St("grant_tables", "crimes", "readonly", {"SELECT"}, 471),
     St("grant_tables", "crimes", "readwrite", {"SELECT", "INSERT", "UPDATE"}, 472) >>

\* Cell33 with the first CONNECT granted to PUBLIC
Cell33PublicConnect ==
  << St("create_group", "", "readonly", {}, 459),
     St("create_group", "", "readwrite", {}, 460),
     St("grant_database", "crime_db", PUBLIC, {"CONNECT"}, 463),
     St("grant_database", "crime_db", "readwrite", {"CONNECT"}, 464),
     St("grant_schema", "crimes", "readonly", {"USAGE"}, 467),
     St("grant_schema", "crimes", "readonly", {"USAGE"}, 468),
     St("grant_tables", "crimes", "readonly", {"SELECT"}, 471),
     St("grant_tables", "crimes", "readwrite",
        {"SELECT", "INSERT", "DELETE", "UPDATE"}, 472) >>

\* Cell33 with the readonly grant widened to the write privileges
Cell33ReadonlyWrites ==
  << St("create_group", "", "readonly", {}, 459),
     St("create_group", "", "readwrite", {}, 460),
     St("grant_database", "crime_db", "readonly", {"CONNECT"}, 463),
     St("grant_database", "crime_db", "readwrite", {"CONNECT"}, 464),
     St("grant_schema", "crimes", "readonly", {"USAGE"}, 467),
     St("grant_schema", "crimes", "readonly", {"USAGE"}, 468),
     St("grant_tables", "crimes", "readonly", {"SELECT", "INSERT"}, 471),
     St("grant_tables", "crimes", "readwrite",
        {"SELECT", "INSERT", "DELETE", "UPDATE"}, 472) >>

\* cell create readonly and readwrite groups
Cell33 ==
  << St("create_group", "", "readonly", {}, 459),
     St("create_group", "", "readwrite", {}, 460),
     St("grant_database", "crime_db", "readonly", {"CONNECT"}, 463),
     St("grant_database", "crime_db", "readwrite", {"CONNECT"}, 464),
     St("grant_schema", "crimes", "readonly", {"USAGE"}, 467),
     St("grant_schema", "crimes", "readonly", {"USAGE"}, 468),
     St("grant_tables", "crimes", "readonly", {"SELECT"}, 471),
     St("grant_tables", "crimes", "readwrite",
        {"SELECT", "INSERT", "DELETE", "UPDATE"}, 472) >>

\* Cell36 with data_analyst put in readwrite
Cell36AnalystReadwrite ==
  << St("create_user", "", "data_analyst", {}, 498),
     St("grant_role", "readwrite", "data_analyst", {}, 499),
     St("create_user", "", "data_scientist", {}, 502),
     St("grant_role", "readwrite", "data_scientist", {}, 503) >>

\* cell create users
Cell36 ==
  << St("create_user", "", "data_analyst", {}, 498),
     St("grant_role", "readonly", "data_analyst", {}, 499),
     St("create_user", "", "data_scientist", {}, 502),
     St("grant_role", "readwrite", "data_scientist", {}, 503) >>

\* cell commit and close
Cell38 ==
  << St("commit", "", "", {}, 520),
     St("close", "", "", {}, 521) >>

\* the Testing cells: a new connection and four catalog queries
Cell42 ==
  << St("connect", "crime_db", "postgres", {}, 568),
     St("cursor", "", "", {}, 569),
     St("select", "schemata", "", {}, 570) >>
Cell44 == << St("select", "tables", "", {}, 603) >>
Cell46 == << St("select", "applicable_roles", "", {}, 635) >>
Cell48 == << St("select", "table_privileges", "", {}, 671) >>

\* the cells with the REVOKE cell run before the bulk copy
ProgramRevokeBeforeCopy ==
  Cell2 \o Cell4 \o Cell6 \o Cell22 \o Cell24 \o Cell31 \o Cell26 \o Cell28
        \o Cell33 \o Cell36 \o Cell38 \o Cell42 \o Cell44 \o Cell46 \o Cell48

\* the code cells that talk to the server, in notebook order
Program ==
  Cell2 \o Cell4 \o Cell6 \o Cell22 \o Cell24 \o Cell26 \o Cell28 \o Cell31
        \o Cell33 \o Cell36 \o Cell38 \o Cell42 \o Cell44 \o Cell46 \o Cell48

Done == Len(Program) + 1

\* connections are named by the line of the psycopg2.connect that opens them
ConnIds == {Program[i].line : i \in {j \in 1..Len(Program) : Program[j].op = "connect"}}
NoConnection == [state |-> "none", db |-> "", autocommit |-> FALSE]
NoTxn == [owner |-> 0, cat |-> Pristine]
NoOp  == [user |-> "", op |-> "", res |-> ""]

\* ------------------------------------------------------------------- state
VARIABLES
  db,        \* the committed catalog of the server
  txn,       \* the uncommitted catalog of the connection that owns a transaction
  conns,     \* every connection of this kernel: state, database, autocommit
  conn,      \* the notebook's variable conn (0: unbound)
  cur,       \* the connection the notebook's variable cur is a cursor of
  pc,        \* index in Program of the next statement
  run,       \* how many times the notebook has been started
  err,       \* the error that stopped the run ("": none)
  results,   \* what the last query fetched
  log,       \* the statements this run has executed, in order
  csvRows,   \* number of data records of data/boston.csv
  lastOp,    \* the last statement of another session and its outcome
  \* the bulk copy, column by column
  csv,       \* data/boston.csv: the header line, then one line per record
  loaded,    \* the rows of crimes.boston_crimes with all their columns
  copyPc,    \* "table": created and empty; "copied"; "failed"; "shown"
  copyErr,   \* the error COPY raised ("": none)
  fetched,   \* the rows SELECT * ... LIMIT 3 returned
  \* sql_project_chinook.ipynb
  store,     \* the tables of data/chinook.db
  views,     \* the views of data/chinook.db
  cell,      \* the next code cell of the in-order run
  shown,     \* the output under each code cell
  sqlErr     \* the error the last executed cell raised ("": none)

nbVars   == <<db, txn, conns, conn, cur, pc, run, err, results, log, csvRows, lastOp>>
copyVars == <<csv, loaded, copyPc, copyErr, fetched>>
sqlVars  == <<store, views, cell, shown, sqlErr>>
vars == <<nbVars, copyVars, sqlVars>>

\* the kernel of crime_report_database.ipynb before its first cell
Fresh ==
  /\ db = Pristine
  /\ txn = NoTxn
  /\ conns = [c \in ConnIds |-> NoConnection]
  /\ conn = 0
  /\ cur = 0
  /\ pc = 1
  /\ run = 1
  /\ err = ""
  /\ results = {}
  /\ log = <<>>
  /\ lastOp = NoOp

\* the column-level view of the bulk copy is not followed
NoCopy ==
  /\ csv = <<>>
  /\ loaded = {}
  /\ copyPc = ""
  /\ copyErr = ""
  /\ fetched = {}

\* sql_project_chinook.ipynb is not open
NoSql ==
  /\ store = <<>>
  /\ views = {}
  /\ cell = 0
  /\ shown = <<>>
  /\ sqlErr = ""

Init ==
  /\ Fresh
  /\ csvRows \in 1..MaxRows
  /\ NoCopy
  /\ NoSql

Stmt == Program[pc]
RunningDespiteError(op) == pc < Done /\ Stmt.op = op
Running(op) == pc < Done /\ err = "" /\ Stmt.op = op

IsOpen(c) == c # 0 /\ conns[c].state = "open"
Auto == cur # 0 /\ conns[cur].autocommit
\* the catalog a statement on cur sees: its own transaction's, else the committed one
View == IF cur # 0 /\ txn.owner = cur THEN txn.cat ELSE db
\* whether a session other than cur is connected to crime_db
Others == \E c \in ConnIds : c # cur /\ conns[c].state = "open" /\ conns[c].db = "crime_db"

\* the statement completed: the notebook goes on to the next one
Advance == pc' = pc + 1 /\ log' = Append(log, Stmt) /\ err' = err
\* the statement raised: nothing catches it, the run stops here
Fail(e) == err' = e /\ UNCHANGED <<pc, log>>

\* cur.execute of a statement that changes the catalog: in autocommit mode
\* the change is committed at once, otherwise it joins cur's transaction
Execute(res) ==
  /\ IF res.err # "" THEN Fail(res.err) /\ UNCHANGED <<db, txn>>
     ELSE /\ Advance
          /\ IF Auto THEN db' = res.cat /\ UNCHANGED txn
             ELSE txn' = [owner |-> cur, cat |-> res.cat] /\ UNCHANGED db
  /\ UNCHANGED <<conns, conn, cur, run, results, csvRows, lastOp>>
  /\ UNCHANGED <<copyVars, sqlVars>>

\* cur.execute on a cursor whose connection is closed
Closed ==
  /\ Fail("interface_error")
  /\ UNCHANGED <<db, txn, conns, conn, cur, run, results, csvRows, lastOp>>
  /\ UNCHANGED <<copyVars, sqlVars>>

\* ----------------------------------------------------------------- actions
\* conn = psycopg2.connect(dbname=..., user="postgres", ...)
Connect ==
  /\ Running("connect")
  /\ IF Stmt.obj \notin db.databases
       THEN Fail("operational_error") /\ UNCHANGED <<conns, conn>>
       ELSE /\ Advance
            /\ conns' = [conns EXCEPT ![Stmt.line] =
                           [state |-> "open", db |-> Stmt.obj, autocommit |-> FALSE]]
            /\ conn' = Stmt.line
  /\ UNCHANGED <<db, txn, cur, run, results, csvRows, lastOp>>
  /\ UNCHANGED <<copyVars, sqlVars>>

\* conn.autocommit = True
SetAutocommit ==
  /\ Running("autocommit")
  /\ IF ~IsOpen(conn) THEN Fail("interface_error") /\ UNCHANGED conns
     ELSE Advance /\ conns' = [conns EXCEPT ![conn].autocommit = TRUE]
  /\ UNCHANGED <<db, txn, conn, cur, run, results, csvRows, lastOp>>
  /\ UNCHANGED <<copyVars, sqlVars>>

\* cur = conn.cursor()
Cursor ==
  /\ Running("cursor")
  /\ IF ~IsOpen(conn) THEN Fail("interface_error") /\ UNCHANGED cur
     ELSE Advance /\ cur' = conn
  /\ UNCHANGED <<db, txn, conns, conn, run, results, csvRows, lastOp>>
  /\ UNCHANGED <<copyVars, sqlVars>>

\* conn.close(): an uncommitted transaction of the connection is rolled back
Close ==
  /\ Running("close")
  /\ Advance
  /\ conns' = IF conn = 0 THEN conns ELSE [conns EXCEPT ![conn].state = "closed"]
  /\ txn' = IF conn # 0 /\ txn.owner = conn THEN NoTxn ELSE txn
  /\ UNCHANGED <<db, conn, cur, run, results, csvRows, lastOp>>
  /\ UNCHANGED <<copyVars, sqlVars>>

\* conn.commit()
Commit ==
  /\ Running("commit")
  /\ IF ~IsOpen(conn) THEN Fail("interface_error") /\ UNCHANGED <<db, txn>>
     ELSE /\ Advance
          /\ IF txn.owner = conn THEN db' = txn.cat /\ txn' = NoTxn
             ELSE UNCHANGED <<db, txn>>
  /\ UNCHANGED <<conns, conn, cur, run, results, csvRows, lastOp>>
  /\ UNCHANGED <<copyVars, sqlVars>>

DropDatabase ==
  /\ Running("drop_database")
  /\ IF IsOpen(cur) THEN Execute(DropDatabaseFx(View, Auto, Others)) ELSE Closed

DropRole ==
  /\ Running("drop_role")
  /\ IF IsOpen(cur) THEN Execute(DropRoleFx(View, Stmt.who)) ELSE Closed

CreateDatabase ==
  /\ Running("create_database")
  /\ IF IsOpen(cur) THEN Execute(CreateDatabaseFx(View, Auto)) ELSE Closed

CreateSchema ==
  /\ Running("create_schema")
  /\ IF IsOpen(cur) THEN Execute(CreateSchemaFx(View, Stmt.obj)) ELSE Closed

CreateType ==
  /\ Running("create_type")
  /\ IF IsOpen(cur) THEN Execute(CreateTypeFx(View)) ELSE Closed

CreateTable ==
  /\ Running("create_table")
  /\ IF IsOpen(cur) THEN Execute(CreateTableFx(View)) ELSE Closed

\* cur.copy_expert("COPY ... FROM STDIN WITH CSV HEADER;", f)
Copy ==
  /\ Running("copy")
  /\ IF IsOpen(cur) THEN Execute(CopyFx(View, csvRows)) ELSE Closed

RevokeSchema ==
  /\ Running("revoke_schema")
  /\ IF IsOpen(cur) THEN Execute(RevokeSchemaFx(View, Stmt.obj, Stmt.who)) ELSE Closed

RevokeDatabase ==
  /\ Running("revoke_database")
  /\ IF IsOpen(cur) THEN Execute(RevokeDatabaseFx(View, Stmt.who)) ELSE Closed

CreateGroup ==
  /\ Running("create_group")
  /\ IF IsOpen(cur) THEN Execute(CreateGroupFx(View, Stmt.who)) ELSE Closed

GrantDatabase ==
  /\ Running("grant_database")
  /\ IF IsOpen(cur) THEN Execute(GrantDatabaseFx(View, Stmt.privs, Stmt.who)) ELSE Closed

GrantSchema ==
  /\ Running("grant_schema")
  /\ IF IsOpen(cur) THEN Execute(GrantSchemaFx(View, Stmt.obj, Stmt.privs, Stmt.who))
     ELSE Closed

GrantTables ==
  /\ Running("grant_tables")
  /\ IF IsOpen(cur) THEN Execute(GrantTablesFx(View, Stmt.obj, Stmt.privs, Stmt.who))
     ELSE Closed

CreateUser ==
  /\ Running("create_user")
  /\ IF IsOpen(cur) THEN Execute(CreateUserFx(View, Stmt.who)) ELSE Closed

GrantRole ==
  /\ Running("grant_role")
  /\ IF IsOpen(cur) THEN Execute(GrantRoleFx(View, Stmt.obj, Stmt.who)) ELSE Closed

\* the subsets of S a fetch of at most k rows can return (no ORDER BY: any)
Take(S, k) ==
  {T \in SUBSET S : Cardinality(T) = (IF Cardinality(S) < k THEN Cardinality(S) ELSE k)}

\* what each query of the notebook returns from catalog cat
QueryResult(cat, q) ==
  CASE q = "rows"             -> Take(cat.rows, 3)
    [] q = "schemata"         -> {cat.schemas \cup {"pg_catalog", "information_schema"}}
    [] q = "tables"           -> {{t \in cat.tables : t[1] = "crimes"}}
    [] q = "applicable_roles" -> Take({m \in cat.member : m[2] \in Groups}, 5)
    [] q = "table_privileges" ->
         {{<<a[2], a[3]>> : a \in {x \in cat.tableAcl : x[2] \in Groups}}}

\* cur.execute("SELECT ..."); results = cur.fetchall() / fetchmany(5)
Select ==
  /\ Running("select")
  /\ IF ~IsOpen(cur) THEN Fail("interface_error") /\ UNCHANGED results
     ELSE IF Stmt.obj = "rows" /\ BostonCrimes \notin View.tables
       THEN Fail("undefined_table") /\ UNCHANGED results
     ELSE Advance /\ results' \in QueryResult(View, Stmt.obj)
  /\ UNCHANGED <<db, txn, conns, conn, cur, run, csvRows, lastOp>>
  /\ UNCHANGED <<copyVars, sqlVars>>

\* the kernel is restarted and the notebook run again from its first cell,
\* at any point of a run or after it: the kernel's connections end, and the
\* server rolls back what they had not committed
Restart ==
  /\ run < MaxRuns
  /\ pc > 1
  /\ run' = run + 1
  /\ pc' = 1
  /\ err' = ""
  /\ log' = <<>>
  /\ results' = {}
  /\ conns' = [c \in ConnIds |-> NoConnection]
  /\ conn' = 0
  /\ cur' = 0
  /\ txn' = NoTxn
  /\ UNCHANGED <<db, csvRows, lastOp>>
  /\ UNCHANGED <<copyVars, sqlVars>>

\* ----------------------------------------------------- the other sessions
\* What role u gets when it logs in to crime_db and runs one statement of
\* kind op on crimes.boston_crimes (an INSERT names no incident_number).
Access(cat, u, op) ==
  IF "crime_db" \notin cat.databases THEN "invalid_catalog_name"
  ELSE IF u \notin cat.roles THEN "invalid_authorization"
  ELSE IF u \notin cat.login THEN "login_denied"
  ELSE IF ~HasDbPriv(cat, u, "CONNECT") THEN "connect_denied"
  ELSE IF BostonCrimes[1] \notin cat.schemas THEN "invalid_schema_name"
  ELSE IF ~HasSchemaPriv(cat, BostonCrimes[1], u, "USAGE") THEN "schema_denied"
  ELSE IF BostonCrimes \notin cat.tables THEN "undefined_table"
  ELSE IF ~HasTablePriv(cat, BostonCrimes, u, op) THEN "table_denied"
  ELSE IF op = "INSERT" /\ ~HasSeqPriv(cat, u, "USAGE") THEN "sequence_denied"
  ELSE "ok"

\* INSERT INTO crimes.boston_crimes (offense_code, ...) VALUES (...): the
\* incident_number is the sequence's next value, which is consumed whether
\* or not the primary key accepts the row
InsertFx(cat) ==
  LET id == cat.seq + 1
  IN  IF id \in cat.rows
        THEN Raise([cat EXCEPT !.seq = id], "unique_violation")
        ELSE Ok([cat EXCEPT !.seq = id, !.rows = @ \cup {id}])

ClientOp(u, op) ==
  /\ LET r == Access(db, u, op)
     IN  IF r # "ok"
           THEN lastOp' = [user |-> u, op |-> op, res |-> r] /\ UNCHANGED db
         ELSE IF op = "INSERT"
           THEN /\ db.seq < MaxSeq
                /\ db' = InsertFx(db).cat
                /\ lastOp' = [user |-> u, op |-> op,
                              res |-> IF InsertFx(db).err = "" THEN "ok"
                                      ELSE InsertFx(db).err]
         ELSE IF op = "DELETE"
           THEN /\ \E k \in db.rows \cup {0} : db' = [db EXCEPT !.rows = @ \ {k}]
                /\ lastOp' = [user |-> u, op |-> op, res |-> "ok"]
         ELSE lastOp' = [user |-> u, op |-> op, res |-> "ok"] /\ UNCHANGED db
  /\ UNCHANGED <<txn, conns, conn, cur, pc, run, err, results, log, csvRows>>
  /\ UNCHANGED <<copyVars, sqlVars>>

Client == \E u \in Clients, op \in TablePrivs : ClientOp(u, op)

Next ==
  \/ Connect \/ SetAutocommit \/ Cursor \/ Close \/ Commit
  \/ DropDatabase \/ DropRole \/ CreateDatabase \/ CreateSchema
  \/ CreateType \/ CreateTable \/ Copy \/ Select
  \/ RevokeSchema \/ RevokeDatabase \/ CreateGroup
  \/ GrantDatabase \/ GrantSchema \/ GrantTables
  \/ CreateUser \/ GrantRole
  \/ Restart
  \/ Client

Spec == Init /\ [][Next]_vars

\* ------------------------------------------------ statements that raise
\* A driver call raises for a reason outside the catalog: the server cannot
\* be reached, or data/boston.csv is missing when the copy cell opens it.
Fault ==
  /\ pc < Done
  /\ err = ""
  /\ \E e \in IF Stmt.op = "copy" THEN {"operational_error", "file_not_found"}
               ELSE {"operational_error"} : Fail(e)
  /\ UNCHANGED <<db, txn, conns, conn, cur, run, results, csvRows, lastOp>>
  /\ UNCHANGED <<copyVars, sqlVars>>

\* the notebook alone, any of its statements raising
FaultNext ==
  \/ Connect \/ SetAutocommit \/ Cursor \/ Close \/ Commit
  \/ DropDatabase \/ DropRole \/ CreateDatabase \/ CreateSchema
  \/ CreateType \/ CreateTable \/ Copy \/ Select
  \/ RevokeSchema \/ RevokeDatabase \/ CreateGroup
  \/ GrantDatabase \/ GrantSchema \/ GrantTables
  \/ CreateUser \/ GrantRole
  \/ Restart
  \/ Fault

FaultSpec == Init /\ [][FaultNext]_vars

\* ------------------------------------------- the bulk copy, column by column
\* Cells 24 to 28 followed with the contents of the file: the table has just
\* been created, COPY reads the file into it, SELECT shows three rows.

\* a description of exactly VARCHAR(116) characters, and one character more
Longest == "XXXXXXXXXXXXXXXXXXXXXXXXXXXXXXXXXXXXXXXXXXXXXXXXXXXXXXXXXXXXXXXXXXXXXXXXXXXXXXXXXXXXXXXXXXXXXXXXXXXXXXXXXXXXXXXXXXXX"
TooLong == "XXXXXXXXXXXXXXXXXXXXXXXXXXXXXXXXXXXXXXXXXXXXXXXXXXXXXXXXXXXXXXXXXXXXXXXXXXXXXXXXXXXXXXXXXXXXXXXXXXXXXXXXXXXXXXXXXXXXX"

\* texts that stand in field k of a record in place of the file's own
OtherTexts(k) ==
  CASE k = 1 -> {"1", "02", "x", ""}
    [] k = 2 -> {"0619", "40000", ""}
    [] k = 3 -> {Longest, TooLong, ""}
    [] k = 4 -> {"2018-9-2", "2018-13-45", ""}
    [] k = 5 -> {"Sun", ""}
    [] k = 6 -> {"+42.35779134", "north", ""}
    [] k = 7 -> {""}

\* recs with one field of one record changed
Changed(recs) ==
  UNION {UNION {{[recs EXCEPT ![i][k] = t] : t \in OtherTexts(k)} :
                  k \in 1..Len(Header)} : i \in 1..Len(recs)}

\* the record lists of the modelled files: the first records of the file,
\* as they are, with one field changed, or with the last record cut short
RecordLists ==
  LET own == {SubSeq(FileRecords, 1, n) : n \in 0..MaxRows}
  IN  own
      \cup UNION {Changed(recs) : recs \in own}
      \cup {[recs EXCEPT ![Len(recs)] = SubSeq(@, 1, Len(Header) - 1)] :
              recs \in own \ {<<>>}}

\* the header line is whatever the file starts with
Headers == {Header, <<"long", "lat", "day", "date", "what", "code", "id">>, <<"boston">>}

Files == {<<h>> \o recs : h \in Headers, recs \in RecordLists}

CopyInit ==
  /\ Fresh
  /\ NoSql
  /\ csv \in Files
  /\ csvRows = Len(csv) - 1
  /\ loaded = {}
  /\ copyPc = "table"
  /\ copyErr = ""
  /\ fetched = {}

\* with open("data/boston.csv") as f: cur.copy_expert("COPY ... CSV HEADER;", f)
CopyExpert ==
  /\ copyPc = "table"
  /\ LET r == CopyIn(csv)
     IN  /\ copyErr' = r.err
         /\ loaded' = r.rows
         /\ copyPc' = IF r.err = "" THEN "copied" ELSE "failed"
  /\ UNCHANGED <<csv, fetched>>
  /\ UNCHANGED <<nbVars, sqlVars>>

\* cur.execute("SELECT * FROM crimes.boston_crimes LIMIT 3;"); cur.fetchall()
SelectLimit3 ==
  /\ copyPc = "copied"
  /\ fetched' \in Take(loaded, 3)
  /\ copyPc' = "shown"
  /\ UNCHANGED <<csv, loaded, copyErr>>
  /\ UNCHANGED <<nbVars, sqlVars>>

CopyNext == CopyExpert \/ SelectLimit3

CopySpec == CopyInit /\ [][CopyNext]_vars

\* ------------------------------------------------ sql_project_chinook.ipynb
\* data/chinook.db holds the tables; the model keeps the columns the
\* notebook's queries read. Keys are unique and every reference resolves.
\* Amounts of money are counted in cents.
\* the tables sqlite_master lists
Tables ==
  {"album", "artist", "customer", "employee", "genre", "invoice",
   "invoice_line", "media_type", "playlist", "playlist_track", "track"}

\* ---------------------------------------------------------------- SQLite
\* a column holding the value v, as opposed to NULL
NotNull(v) == <<v>>

\* SUM(f) over the rows S, none of them NULL: 0 over no rows
RECURSIVE Sum(_, _)
Sum(f, S) ==
  IF S = {} THEN 0
  ELSE LET x == CHOOSE y \in S : TRUE IN f[x] + Sum(f, S \ {x})

\* ROUND(n / d, k) for n >= 0 and d > 0, where n is already counted in units
\* of 10^-k and so is the result: a half rounds away from zero
RoundDiv(n, d) == (2 * n + d) \div (2 * d)

\* column f of a row that a LEFT JOIN may have filled with NULLs
Col(x, f) == IF x = Null THEN Null ELSE NotNull(x[1][f])

\* L LEFT JOIN R ON ..., on being the pairs of L \X R the condition holds
\* of: every such pair, and every row of L without one, paired with NULLs
LeftJoin(L, R, on) ==
  {[l |-> p[1], r |-> NotNull(p[2])] : p \in on}
  \cup {[l |-> x, r |-> Null] : x \in {y \in L : \A z \in R : <<y, z>> \notin on}}

\* the orders ORDER BY may return the rows S in, before being the pairs <<a, b>>
\* of which a sorts strictly before b: rows that tie come in any order
OrderedBy(S, before) ==
  {q \in [1..Cardinality(S) -> S] :
     /\ \A i, j \in DOMAIN q : i < j => q[i] # q[j]
     /\ \A i, j \in DOMAIN q : i < j => <<q[j], q[i]>> \notin before}

\* DROP VIEW IF EXISTS name
DropViewIfExists(V, name) == [views |-> V \ {name}, err |-> ""]

\* CREATE VIEW name AS ...
CreateView(V, name) ==
  IF name \in V THEN [views |-> V, err |-> "view already exists"]
  ELSE [views |-> V \cup {name}, err |-> ""]

\* a statement reading stats_by_country, which reads order_by_country
ReadStats(V) ==
  IF "stats_by_country" \notin V \/ "order_by_country" \notin V THEN "no such table" ELSE ""

\* ----------------------------------------------------- Most Popular Genres
\* FROM invoice_line il INNER JOIN track t ON t.track_id = il.track_id
\*                      INNER JOIN genre g ON g.genre_id = t.genre_id
GenreLines(s) ==
  {x \in [il : s.invoice_line, t : s.track, g : s.genre] :
     x.t.track_id = x.il.track_id /\ x.g.genre_id = x.t.genre_id}

\* WITH tracks_by_genre: SELECT g.name AS genre, SUM(il.quantity) ... GROUP BY genre
TracksByGenreCountingLines(s) ==
  LET J == GenreLines(s)
  IN  {[genre |-> n, tracks_sold |-> Cardinality({x \in J : x.g.name = n})] :
         n \in {x.g.name : x \in J}}
TracksByGenre(s) ==
  LET J == GenreLines(s)
      G(n) == {x \in J : x.g.name = n}
  IN  {[genre |-> n, tracks_sold |-> Sum([x \in G(n) |-> x.il.quantity], G(n))] :
         n \in {x.g.name : x \in J}}

\* the main query, ... ORDER BY tracks_sold DESC; percentage is counted in
\* hundredths of a percent
GenreReports(s) ==
  LET T == TracksByGenre(s)
      total == Sum([r \in T |-> r.tracks_sold], T)
      rows == {[genre |-> r.genre, tracks_sold |-> r.tracks_sold,
                percentage |-> RoundDiv(100 * 100 * r.tracks_sold, total)] : r \in T}
  IN  OrderedBy(rows, {p \in rows \X rows : p[1].tracks_sold > p[2].tracks_sold})

\* --------------------------------------------- Analyzing Employee Performance
\* FROM invoice i LEFT JOIN customer c ON c.customer_id = i.customer_id
\*                LEFT JOIN employee e ON e.employee_id = c.support_rep_id
SalesJoinOnCustomerId(s) ==
  LET ic == LeftJoin(s.invoice, s.customer,
                     {p \in s.invoice \X s.customer :
                        p[2].customer_id = p[1].customer_id})
  IN  LeftJoin(ic, s.employee,
               {p \in ic \X s.employee :
                  p[1].r # Null /\ p[2].employee_id = p[1].r[1].customer_id})
SalesJoin(s) ==
  LET ic == LeftJoin(s.invoice, s.customer,
                     {p \in s.invoice \X s.customer :
                        p[2].customer_id = p[1].customer_id})
  IN  LeftJoin(ic, s.employee,
               {p \in ic \X s.employee :
                  p[1].r # Null /\ p[2].employee_id = p[1].r[1].support_rep_id})

\* SELECT e.first_name || " " || e.last_name AS employee_name, SUM(i.total),
\* e.hire_date ... GROUP BY employee_name: hire_date is taken from some row
\* of the group
EmployeeReports(s) ==
  LET J == SalesJoin(s)
      name(x) == IF x.r = Null THEN Null
                 ELSE NotNull(x.r[1].first_name \o " " \o x.r[1].last_name)
      names == {name(x) : x \in J}
      G(n) == {x \in J : name(x) = n}
      hired(n) == {Col(x.r, "hire_date") : x \in G(n)}
  IN  {{[employee_name |-> n,
         total_sales |-> Sum([x \in G(n) |-> x.l.l.total], G(n)),
         hire_date |-> h[n]] : n \in names} :
         h \in {f \in [names -> UNION {hired(n) : n \in names}] :
                  \A n \in names : f[n] \in hired(n)}}

\* --------------------------------------------------------------- the views
\* CREATE VIEW order_by_country: one row for each row of the join; rowid
\* keeps rows with equal columns apart
OrderByCountry(s) ==
  {[rowid |-> x.l.invoice_id,
    total |-> x.l.total,
    customer_id |-> Col(x.r, "customer_id"),
    customer_name |-> IF x.r = Null THEN Null
                      ELSE NotNull(x.r[1].first_name \o " " \o x.r[1].last_name),
    country |-> Col(x.r, "country")] :
     x \in LeftJoin(s.invoice, s.customer,
                    {p \in s.invoice \X s.customer :
                       p[2].customer_id = p[1].customer_id})}

\* CREATE VIEW stats_by_country ... FROM order_by_country GROUP BY country.
\* The view's last column, sales_per_customer, is read by no cell (the
\* country query computes its own) and is left out.
StatsByCountryCountingOrders(s) ==
  LET O == OrderByCountry(s)
      G(c) == {o \in O : o.country = c}
  IN  {[country |-> c,
        number_of_customers |-> Cardinality({o \in G(c) : o.customer_id # Null}),
        total_sales |-> RoundDiv(Sum([o \in G(c) |-> o.total], G(c)), 1),
        number_of_orders |-> Cardinality({o \in G(c) : o.customer_id # Null})] :
         c \in {o.country : o \in O}}
StatsByCountry(s) ==
  LET O == OrderByCountry(s)
      G(c) == {o \in O : o.country = c}
  IN  {[country |-> c,
        number_of_customers |-> Cardinality({o.customer_id : o \in G(c)} \ {Null}),
        total_sales |-> RoundDiv(Sum([o \in G(c) |-> o.total], G(c)), 1),
        number_of_orders |-> Cardinality({o \in G(c) : o.customer_id # Null})] :
         c \in {o.country : o \in O}}

\* SELECT ... "A" AS sorting FROM stats_by_country WHERE number_of_customers > 1;
\* total_sales / number_of_customers is a quotient that is not rounded
LargeCountries(s) ==
  {[country |-> r.country,
    number_of_customers |-> NotNull(r.number_of_customers),
    total_sales |-> NotNull(r.total_sales),
    sales_per_customer |->
      NotNull([num |-> r.total_sales, den |-> r.number_of_customers]),
    sales_per_order |-> NotNull(RoundDiv(r.total_sales, r.number_of_orders)),
    sorting |-> "A"] :
     r \in {t \in StatsByCountry(s) : t.number_of_customers > 1}}

\* SELECT "Other", SUM(...), ... "B" AS sorting FROM stats_by_country
\* WHERE number_of_customers = 1: one row, of NULLs when no country qualifies
OtherCountries(s) ==
  LET S1 == {t \in StatsByCountry(s) : t.number_of_customers = 1}
      sum(f) == IF S1 = {} THEN Null ELSE NotNull(Sum(f, S1))
      customers == Sum([t \in S1 |-> t.number_of_customers], S1)
      sales == Sum([t \in S1 |-> t.total_sales], S1)
  IN  [country |-> NotNull("Other"),
       number_of_customers |-> sum([t \in S1 |-> t.number_of_customers]),
       total_sales |-> sum([t \in S1 |-> t.total_sales]),
       sales_per_customer |->
         IF S1 = {} THEN Null ELSE NotNull([num |-> sales, den |-> customers]),
       sales_per_order |->
         sum([t \in S1 |-> RoundDiv(t.total_sales, t.number_of_orders)]),
       sorting |-> "B"]

\* the country query: the five columns of A UNION B, ORDER BY sorting,
\* total_sales DESC
CountryReports(s) ==
  LET rows == LargeCountries(s) \cup {OtherCountries(s)}
      before ==
        {p \in rows \X rows :
           \/ p[1].sorting = "A" /\ p[2].sorting = "B"
           \/ /\ p[1].sorting = p[2].sorting
              /\ p[1].total_sales # Null /\ p[2].total_sales # Null
              /\ p[1].total_sales[1] > p[2].total_sales[1]}
  IN  {[i \in DOMAIN q |->
          [country |-> q[i].country,
           number_of_customers |-> q[i].number_of_customers,
           total_sales |-> q[i].total_sales,
           sales_per_customer |-> q[i].sales_per_customer,
           sales_per_order |-> q[i].sales_per_order]] :
         q \in OrderedBy(rows, before)}

\* ------------------------------------------------ Detecting Album Purchases
\* WITH invoice_album: invoice_line il LEFT JOIN track t ON t.track_id = il.track_id
InvoiceAlbum(s) ==
  {[invoice_id |-> x.l.invoice_id,
    invoice_line_id |-> x.l.invoice_line_id,
    track_id |-> x.l.track_id,
    album_id |-> Col(x.r, "album_id")] :
     x \in LeftJoin(s.invoice_line, s.track,
                    {p \in s.invoice_line \X s.track :
                       p[2].track_id = p[1].track_id})}

\* album_lengths: SELECT album_id, COUNT(DISTINCT track_id) FROM track GROUP BY album_id
AlbumLengths(s) ==
  {[album_id |-> a,
    album_length |-> Cardinality({t.track_id : t \in {u \in s.track : u.album_id = a}})] :
     a \in {t.album_id : t \in s.track}}

\* FROM invoice_album ia LEFT JOIN album_lengths al ON al.album_id = ia.album_id
\* GROUP BY invoice_id: al.album_length comes from a row holding MAX(ia.album_id)
InvoiceGroupsCountingLines(s) ==
  LET J == LeftJoin(InvoiceAlbum(s), AlbumLengths(s),
                    {p \in InvoiceAlbum(s) \X AlbumLengths(s) :
                       p[1].album_id = NotNull(p[2].album_id)})
      G(i) == {x \in J : x.l.invoice_id = i}
      Max(S) == CHOOSE m \in S : \A x \in S : x <= m
      albums(i) == {x.l.album_id[1] : x \in {y \in G(i) : y.l.album_id # Null}}
      top(i) == IF albums(i) = {} THEN G(i)
                ELSE {x \in G(i) : x.l.album_id = NotNull(Max(albums(i)))}
  IN  {[invoice_id |-> i,
        num_albums |-> Cardinality(albums(i)),
        distinct_songs |-> Cardinality({x.l.invoice_line_id : x \in G(i)}),
        album_id |-> IF albums(i) = {} THEN Null ELSE NotNull(Max(albums(i))),
        album_length |-> CHOOSE v \in {Col(x.r, "album_length") : x \in top(i)} : TRUE] :
         i \in {x.l.invoice_id : x \in J}}
InvoiceGroups(s) ==
  LET J == LeftJoin(InvoiceAlbum(s), AlbumLengths(s),
                    {p \in InvoiceAlbum(s) \X AlbumLengths(s) :
                       p[1].album_id = NotNull(p[2].album_id)})
      G(i) == {x \in J : x.l.invoice_id = i}
      Max(S) == CHOOSE m \in S : \A x \in S : x <= m
      albums(i) == {x.l.album_id[1] : x \in {y \in G(i) : y.l.album_id # Null}}
      top(i) == IF albums(i) = {} THEN G(i)
                ELSE {x \in G(i) : x.l.album_id = NotNull(Max(albums(i)))}
  IN  {[invoice_id |-> i,
        num_albums |-> Cardinality(albums(i)),
        distinct_songs |-> Cardinality({x.l.track_id : x \in G(i)}),
        album_id |-> IF albums(i) = {} THEN Null ELSE NotNull(Max(albums(i))),
        album_length |-> CHOOSE v \in {Col(x.r, "album_length") : x \in top(i)} : TRUE] :
         i \in {x.l.invoice_id : x \in J}}

\* HAVING (num_albums = 1) AND (distinct_songs = album_length)
HavingYes(r) ==
  r.num_albums = 1 /\ r.album_length # Null /\ r.distinct_songs = r.album_length[1]

\* HAVING (num_albums != 1) OR (distinct_songs != album_length)
HavingNoBoth(r) ==
  r.num_albums # 1 /\ r.album_length # Null /\ r.distinct_songs # r.album_length[1]
HavingNo(r) ==
  r.num_albums # 1 \/ (r.album_length # Null /\ r.distinct_songs # r.album_length[1])

\* the "yes" branch UNION the "no" branch, each row with its album_purchase
Classified(s) ==
  LET row(r, p) ==
        [invoice_id |-> r.invoice_id, num_albums |-> r.num_albums,
         distinct_songs |-> r.distinct_songs, album_id |-> r.album_id,
         album_length |-> r.album_length, album_purchase |-> p]
  IN  {row(r, "yes") : r \in {g \in InvoiceGroups(s) : HavingYes(g)}}
      \cup {row(r, "no") : r \in {g \in InvoiceGroups(s) : HavingNo(g)}}

\* SELECT album_purchase, COUNT(invoice_id), ROUND(COUNT / (SELECT COUNT(invoice_id)
\* FROM invoice), 3) ... GROUP BY album_purchase; percent is counted in thousandths
AlbumReport(s) ==
  LET C == Classified(s)
      G(p) == {r \in C : r.album_purchase = p}
  IN  {[album_purchase |-> p,
        number_of_invoices |-> Cardinality(G(p)),
        percent |-> RoundDiv(1000 * Cardinality(G(p)), Cardinality(s.invoice))] :
         p \in {r.album_purchase : r \in C}}

\* ------------------------------------------------------- the notebook's cells
\* the code cells in notebook order
CodeCells ==
  <<"connect", "tables", "genres", "employees", "views", "countries", "albums">>
AllRun == Len(CodeCells) + 1

\* what a cell shows before it has run, and when it fails
Blank == <<>>

\* the tables cell: DROP VIEW IF EXISTS order_by_country; DROP VIEW IF EXISTS
\* stats_by_country; SELECT name, type FROM sqlite_master WHERE type IN (...)
TablesCell(V) ==
  LET d1 == DropViewIfExists(V, "order_by_country")
      d2 == DropViewIfExists(d1.views, "stats_by_country")
  IN  [views |-> d2.views, err |-> "",
       out |-> {<<t, "table">> : t \in Tables} \cup {<<v, "view">> : v \in d2.views}]

\* the views cell: DROP VIEW IF EXISTS, CREATE VIEW, twice; a statement that
\* fails ends the cell
ViewsCell(V) ==
  LET d1 == DropViewIfExists(V, "order_by_country")
      c1 == CreateView(d1.views, "order_by_country")
      d2 == DropViewIfExists(c1.views, "stats_by_country")
      c2 == CreateView(d2.views, "stats_by_country")
  IN  IF c1.err # "" THEN c1 ELSE c2

\* what running a cell leaves: the views, the error and the output shown
Outcome(name, V, e, out) ==
  /\ views' = V
  /\ sqlErr' = e
  /\ shown' = [shown EXCEPT ![name] = out]
  /\ UNCHANGED store

\* running the cell of this name
Body(name) ==
  CASE name = "connect" ->
         \* %load_ext sql; %sql sqlite:///data/chinook.db (under %%capture)
         Outcome(name, views, "", Blank)
    [] name = "tables" ->
         LET r == TablesCell(views) IN Outcome(name, r.views, r.err, r.out)
    [] name = "genres" ->
         \E q \in GenreReports(store) : Outcome(name, views, "", q)
    [] name = "employees" ->
         \E t \in EmployeeReports(store) : Outcome(name, views, "", t)
    [] name = "views" ->
         LET r == ViewsCell(views) IN Outcome(name, r.views, r.err, {})
    [] name = "countries" ->
         IF ReadStats(views) # ""
         THEN Outcome(name, views, ReadStats(views), Blank)
         ELSE \E q \in CountryReports(store) : Outcome(name, views, "", q)
    [] name = "albums" ->
         Outcome(name, views, "", AlbumReport(store))

\* the next cell of a run in notebook order; the run stops at a cell that fails
InOrder(name) ==
  /\ cell < AllRun
  /\ CodeCells[cell] = name
  /\ sqlErr = ""
  /\ cell' = IF sqlErr' = "" THEN cell + 1 ELSE cell
  /\ UNCHANGED <<nbVars, copyVars>>

\* a cell run again after the run in notebook order
Again ==
  /\ cell = AllRun
  /\ UNCHANGED cell
  /\ UNCHANGED <<nbVars, copyVars>>

RunConnect   == Body("connect") /\ InOrder("connect")
RunTables    == Body("tables") /\ InOrder("tables")
RunGenres    == Body("genres") /\ InOrder("genres")
RunEmployees == Body("employees") /\ InOrder("employees")
RunViews     == Body("views") /\ InOrder("views")
RunCountries == Body("countries") /\ InOrder("countries")
RunAlbums    == Body("albums") /\ InOrder("albums")

\* the cell of this name run again
Rerun(name) == Body(name) /\ Again

\* ------------------------------------------------------------- the databases
\* Families of databases of data/chinook.db. Every track costs 99 cents.
\*   sales:     two invoices and up to MaxLines lines over three tracks, on
\*              two albums or one, the two genres named apart or alike
\*   countries: four customers in one to three countries, each placing up
\*              to MaxOrders invoices of one line
\*   reps:      three customers of either representative, the two
\*              representatives named apart or alike
\*   bulk:      BulkInvoices invoices of one line each, y of them buying the
\*              one track of album 2, the others one of the two of album 1
Databases ==
  LET Genre(id, name) == [genre_id |-> id, name |-> name]
      Track(id, album, genre) ==
        [track_id |-> id, album_id |-> album, genre_id |-> genre]
      Employee(id, first, last, hired) ==
        [employee_id |-> id, first_name |-> first, last_name |-> last,
         hire_date |-> hired]
      TwoAlbums == {Track(1, 1, 1), Track(2, 1, 2), Track(3, 2, 1)}
      OneAlbum  == {Track(1, 1, 1), Track(2, 1, 1), Track(3, 1, 2)}
      Genres      == {Genre(1, "Rock"), Genre(2, "Jazz")}
      GenresAlike == {Genre(1, "Rock"), Genre(2, "Rock")}
      Reps ==
        {Employee(1, "Jane", "Peacock", "2017-04-01 00:00:00"),
         Employee(2, "Margaret", "Park", "2017-05-03 00:00:00")}
      Namesakes ==
        {Employee(1, "Jane", "Peacock", "2017-04-01 00:00:00"),
         Employee(2, "Jane", "Peacock", "2017-05-03 00:00:00")}
      Countries == {"USA", "Chile", "India"}
      FirstNames == <<"Luis", "Leonie", "Helena", "Frank">>
      \* customer k lives in country[k] and is served by rep[k]
      Customers(country, rep) ==
        {[customer_id |-> k, first_name |-> FirstNames[k], last_name |-> "Smith",
          country |-> country[k], support_rep_id |-> rep[k]] : k \in DOMAIN country}
      \* line k is <<invoice, track, quantity>>; invoice i is by[i]'s and
      \* totals its lines
      Lines(q) ==
        {[invoice_line_id |-> k, invoice_id |-> q[k][1], track_id |-> q[k][2],
          quantity |-> q[k][3]] : k \in DOMAIN q}
      Invoices(by, q) ==
        {[invoice_id |-> i, customer_id |-> by[i],
          total |-> LET L == {l \in Lines(q) : l.invoice_id = i}
                    IN  99 * Sum([l \in L |-> l.quantity], L)] : i \in DOMAIN by}
      Store(genres, tracks, employees, customers, by, q) ==
        [genre |-> genres, track |-> tracks, employee |-> employees,
         customer |-> customers, invoice |-> Invoices(by, q),
         invoice_line |-> Lines(q)]
      LineLists ==
        UNION {[1..n -> (1..2) \X (1..3) \X (1..2)] : n \in 0..MaxLines}
      \* customer k places n[k] invoices, of one line each
      RECURSIVE OrdersOf(_, _)
      OrdersOf(n, k) ==
        IF k = 0 THEN <<>> ELSE OrdersOf(n, k - 1) \o [j \in 1..n[k] |-> k]
      OneLineEach(by) == [k \in DOMAIN by |-> <<k, 1, 1 + (k % 2)>>]
      BulkLines(y) ==
        [k \in 1..BulkInvoices |-> <<k, IF k <= y THEN 3 ELSE 1, 1>>]
      Apart == Customers(<<"USA", "Chile", "India">>, <<1, 2, 1>>)
  IN  [sales |->
         {Store(c[2], c[1], Reps, Apart, <<1, 2>>, q) :
            c \in {<<TwoAlbums, Genres>>, <<OneAlbum, Genres>>,
                    <<TwoAlbums, GenresAlike>>},
            q \in LineLists},
       countries |->
         {Store(Genres, TwoAlbums, Reps,
                Customers(<<"USA", "USA", c[1], c[2]>>, <<1, 2, 1, 2>>),
                OrdersOf(n, 4), OneLineEach(OrdersOf(n, 4))) :
            c \in Countries \X Countries, n \in [1..4 -> 0..MaxOrders]},
       reps |->
         {Store(Genres, TwoAlbums, e, Customers(<<"USA", "USA", "Chile">>, rep),
                OrdersOf(n, 3), OneLineEach(OrdersOf(n, 3))) :
            e \in {Reps, Namesakes}, rep \in [1..3 -> 1..2],
            n \in [1..3 -> 0..MaxOrders]},
       bulk |->
         {Store(Genres, TwoAlbums, Reps, Apart,
                [k \in 1..BulkInvoices |-> 1 + (k % 3)], BulkLines(y)) :
            y \in 0..BulkInvoices}]

\* --------------------------------------------------- one run in notebook order
QueryInit ==
  /\ Fresh /\ csvRows = 1 /\ NoCopy
  /\ store \in UNION {Databases[f] : f \in DOMAIN Databases}
  /\ views = {}
  /\ cell = 1
  /\ shown = [name \in {CodeCells[k] : k \in DOMAIN CodeCells} |-> Blank]
  /\ sqlErr = ""

QueryNext ==
  \/ RunConnect \/ RunTables \/ RunGenres \/ RunEmployees
  \/ RunViews \/ RunCountries \/ RunAlbums

QuerySpec == QueryInit /\ [][QueryNext]_vars

\* ------------------------------------------------ cells run again afterwards
\* data/chinook.db may hold the views of an earlier session
ChinookInit ==
  /\ Fresh /\ csvRows = 1 /\ NoCopy
  /\ store \in Databases.bulk
  /\ views \in SUBSET {"order_by_country", "stats_by_country"}
  /\ cell = 1
  /\ shown = [name \in {CodeCells[k] : k \in DOMAIN CodeCells} |-> Blank]
  /\ sqlErr = ""

ChinookNext ==
  \/ QueryNext
  \/ Rerun("connect") \/ Rerun("tables") \/ Rerun("genres") \/ Rerun("employees")
  \/ Rerun("views") \/ Rerun("countries") \/ Rerun("albums")

ChinookSpec == ChinookInit /\ [][ChinookNext]_vars

\* --------------------------------------------------------- a run from scratch
\* One statement of the notebook applied to catalog cat, every statement's
\* effect committed (the notebook commits in Cell38).
Effect(st, cat, n) ==
  CASE st.op = "drop_database"   -> DropDatabaseFx(cat, TRUE, FALSE).cat
    [] st.op = "drop_role"       -> DropRoleFx(cat, st.who).cat
    [] st.op = "create_database" -> CreateDatabaseFx(cat, TRUE).cat
    [] st.op = "create_schema"   -> CreateSchemaFx(cat, st.obj).cat
    [] st.op = "create_type"     -> CreateTypeFx(cat).cat
    [] st.op = "create_table"    -> CreateTableFx(cat).cat
    [] st.op = "copy"            -> CopyFx(cat, n).cat
    [] st.op = "revoke_schema"   -> RevokeSchemaFx(cat, st.obj, st.who).cat
    [] st.op = "revoke_database" -> RevokeDatabaseFx(cat, st.who).cat
    [] st.op = "create_group"    -> CreateGroupFx(cat, st.who).cat
    [] st.op = "grant_database"  -> GrantDatabaseFx(cat, st.privs, st.who).cat
    [] st.op = "grant_schema"    -> GrantSchemaFx(cat, st.obj, st.privs, st.who).cat
    [] st.op = "grant_tables"    -> GrantTablesFx(cat, st.obj, st.privs, st.who).cat
    [] st.op = "create_user"     -> CreateUserFx(cat, st.who).cat
    [] st.op = "grant_role"      -> GrantRoleFx(cat, st.obj, st.who).cat
    [] OTHER                     -> cat

RECURSIVE RunFrom(_, _, _)
RunFrom(i, cat, n) ==
  IF i > Len(Program) THEN cat ELSE RunFrom(i + 1, Effect(Program[i], cat, n), n)

\* the catalog a first, complete run on a pristine cluster commits
FirstRunFinal(n) == RunFrom(1, Pristine, n)

\* ------------------------------------------------------------ vocabulary
\* the run has executed the statement at this source line
Executed(line) == \E i \in DOMAIN log : log[i].line = line
\* the notebook has run to completion
Completed == pc = Done /\ err = ""
\* the catalog the notebook's statements have produced so far: the open
\* transaction's until the commit, the committed one after it
SessionCat == IF txn.owner # 0 THEN txn.cat ELSE db
WritePrivs == {"INSERT", "UPDATE", "DELETE"}
GroupTablePrivs(cat) == {<<a[2], a[3]>> : a \in {x \in cat.tableAcl : x[2] \in Groups}}
GroupMembers(cat) == {m \in cat.member : m[2] \in Groups}

\* ================================================================= claims

\* C1: after the notebook has run to completion, data_scientist (member of
\* readwrite) holds every privilege needed to SELECT, INSERT, DELETE and
\* UPDATE rows of crimes.boston_crimes: CONNECT on crime_db, USAGE on schema
\* crimes and the four table privileges.
C1_ReadwriteHoldsAccess ==
  Completed =>
    /\ HasDbPriv(db, "data_scientist", "CONNECT")
    /\ HasSchemaPriv(db, "crimes", "data_scientist", "USAGE")
    /\ \A p \in TablePrivs : HasTablePriv(db, BostonCrimes, "data_scientist", p)

\* C2: in every state after the notebook completes, data_analyst holds no
\* INSERT, UPDATE or DELETE privilege on crimes.boston_crimes, neither
\* directly, nor through readonly, nor through PUBLIC, and a session of
\* data_analyst that tries one of them is refused, while SELECT is allowed.
C2_ReadonlyCannotWrite ==
  Completed =>
    /\ Grantees(db, "data_analyst") = {"data_analyst", "readonly", PUBLIC}
    /\ \A p \in WritePrivs :
         /\ \A g \in {"data_analyst", "readonly", PUBLIC} :
              <<BostonCrimes, g, p>> \notin db.tableAcl
         /\ ~HasTablePriv(db, BostonCrimes, "data_analyst", p)
         /\ Access(db, "data_analyst", p) = "table_denied"
    /\ Access(db, "data_analyst", "SELECT") = "ok"
    /\ (lastOp.user = "data_analyst" /\ lastOp.op \in WritePrivs => lastOp.res # "ok")

\* C2 witness: after a complete run a session of data_analyst tried an
\* INSERT and was refused for lack of the table privilege.
C2_Witness ==
  /\ Completed
  /\ lastOp = [user |-> "data_analyst", op |-> "INSERT", res |-> "table_denied"]

\* C3: once the CSV is loaded, an INSERT that names no incident_number and
\* passes the privilege checks succeeds, and its row gets an incident_number
\* no other row has.
C3_SerialInsertSucceeds ==
  (lastOp.op = "INSERT" /\ lastOp.user \in Superusers /\ BostonCrimes \in db.tables)
    => (lastOp.res = "ok" /\ db.seq \in db.rows)

\* the provisioning steps as the specification lists them: create database,
\* create schema, create enum type, create table, bulk copy, revoke/grant,
\* create role (group), create user (with the grant of its group); 0 for a
\* call that is no provisioning statement
ListedStep(op) ==
  CASE op = "create_database" -> 1
    [] op = "create_schema"   -> 2
    [] op = "create_type"     -> 3
    [] op = "create_table"    -> 4
    [] op = "copy"            -> 5
    [] op \in {"revoke_schema", "revoke_database",
               "grant_database", "grant_schema", "grant_tables"} -> 6
    [] op = "create_group"    -> 7
    [] op \in {"create_user", "grant_role"} -> 8
    [] OTHER -> 0

\* the steps in the order the cells hold them: the grants to the groups
\* follow the creation of the groups
CellStep(op) ==
  CASE op = "create_database" -> 1
    [] op = "create_schema"   -> 2
    [] op = "create_type"     -> 3
    [] op = "create_table"    -> 4
    [] op = "copy"            -> 5
    [] op \in {"revoke_schema", "revoke_database"} -> 6
    [] op = "create_group"    -> 7
    [] op \in {"grant_database", "grant_schema", "grant_tables"} -> 8
    [] op \in {"create_user", "grant_role"} -> 9
    [] OTHER -> 0

\* by the end of a run every statement of the notebook has been executed
AllExecuted ==
  Completed => {log[i] : i \in DOMAIN log} = {Program[k] : k \in 1..Len(Program)}

\* C4 as stated: the provisioning statements run once each in the order
\* create database, create schema, create enum type, create table, bulk
\* copy, revoke/grant, create role, create user: whenever a statement is
\* executed it has not been executed before in this run, and no statement
\* of a later step has.
C4_ListedOrder ==
  /\ []AllExecuted
  /\ [][Len(log') = Len(log) + 1 =>
          /\ \A i \in DOMAIN log : log[i].line # log'[Len(log')].line
          /\ ListedStep(log'[Len(log')].op) > 0 =>
               \A i \in DOMAIN log :
                 ListedStep(log[i].op) <= ListedStep(log'[Len(log')].op)]_vars

\* C4 amended: the order is create database, create schema, create enum
\* type, create table, bulk copy, revoke, create role (group), grant to the
\* groups, create user with the grant of its group; every statement runs
\* once per run and none of a later step runs before one of an earlier step.
C4_CellOrder ==
  /\ []AllExecuted
  /\ [][Len(log') = Len(log) + 1 =>
          /\ \A i \in DOMAIN log : log[i].line # log'[Len(log')].line
          /\ CellStep(log'[Len(log')].op) > 0 =>
               \A i \in DOMAIN log :
                 CellStep(log[i].op) <= CellStep(log'[Len(log')].op)]_vars

\* C4 witness: a run has executed every provisioning step, the grants to
\* the groups after the groups were created.
C4_Witness ==
  /\ Completed
  /\ \A k \in 1..9 : \E i \in DOMAIN log : CellStep(log[i].op) = k
  /\ \E i, j \in DOMAIN log :
       i < j /\ log[i].op = "create_group" /\ log[j].op = "grant_tables"

\* C5: from whatever an earlier complete or partial run left on the server,
\* the preamble leaves none of crime_db, readonly, readwrite, data_analyst,
\* data_scientist; no statement of the run that follows raises, and its
\* commit leaves the very catalog a first run on a pristine cluster leaves.
C5_PreambleResets ==
  /\ [](/\ ((pc = Len(Cell2) + 1 /\ err = "")
              => (/\ "crime_db" \notin db.databases
                  /\ db.roles \cap (Groups \cup Users) = {}
                  /\ db = Pristine))
        /\ err = ""
        /\ (Completed
              => ([db EXCEPT !.rows = {}, !.seq = 0]
                    = [FirstRunFinal(csvRows) EXCEPT !.rows = {}, !.seq = 0])))
  /\ [][(pc # Done /\ Stmt.op = "commit" /\ pc' = pc + 1)
          => (db' = FirstRunFinal(csvRows))]_vars

\* C5 witness: the preamble of a second run has just emptied a server that
\* an earlier run had provisioned (data_analyst had read the table there).
C5_Witness ==
  /\ run = 2
  /\ pc = Len(Cell2) + 1
  /\ db = Pristine
  /\ lastOp = [user |-> "data_analyst", op |-> "SELECT", res |-> "ok"]

\* C6: no connection the notebook opened is still open after its last cell.
C6_AllConnectionsClosed ==
  pc = Done => \A c \in ConnIds : conns[c].state # "open"

\* C7: after provisioning the table privileges of the two groups are
\* exactly readonly: SELECT and readwrite: SELECT, INSERT, UPDATE, DELETE,
\* all on crimes.boston_crimes, as the last verification query reports.
C7_GroupTablePrivileges ==
  Completed =>
    /\ GroupTablePrivs(db) =
         {<<"readonly", "SELECT">>} \cup {<<"readwrite", p>> : p \in TablePrivs}
    /\ \A a \in db.tableAcl : a[2] \in Groups => a[1] = BostonCrimes
    /\ results = GroupTablePrivs(db)

\* C7 witness: the notebook has completed and its last query returned the
\* five rows of the captured output.
C7_Witness ==
  /\ Completed
  /\ Executed(671)
  /\ Cardinality(results) = 5
  /\ <<"readwrite", "DELETE">> \in results

\* C8: after provisioning data_analyst is a member of readonly and of no
\* other created group, data_scientist of readwrite and of no other, and the
\* groups have no other member; the applicable_roles query reports it.
C8_GroupMembership ==
  /\ Completed =>
       /\ {g \in Groups : <<"data_analyst", g>> \in db.member} = {"readonly"}
       /\ {g \in Groups : <<"data_scientist", g>> \in db.member} = {"readwrite"}
       /\ GroupMembers(db) =
            {<<"data_analyst", "readonly">>, <<"data_scientist", "readwrite">>}
  /\ (pc = Len(Program) /\ err = "") => results = GroupMembers(db)

\* C8 witness: the applicable_roles query has just returned the two
\* memberships.
C8_Witness ==
  /\ pc = Len(Program)
  /\ err = ""
  /\ results = {<<"data_analyst", "readonly">>, <<"data_scientist", "readwrite">>}

\* C9: wherever the groups exist (in the open transaction or committed)
\* readonly and readwrite lack the login attribute and the users, once
\* created, have it; a session that tries to log in as a group is refused.
C9_OnlyUsersLogIn ==
  /\ \A cat \in {db, SessionCat} :
       /\ (Groups \cap cat.roles) \cap cat.login = {}
       /\ (Users \cap cat.roles) \subseteq cat.login
  /\ lastOp.user \in Groups =>
       lastOp.res \in {"invalid_catalog_name", "invalid_authorization", "login_denied"}

\* C9 witness: groups and users are committed, and a session that tried to
\* log in as readwrite was refused for lack of the login attribute.
C9_Witness ==
  /\ Groups \cup Users \subseteq db.roles
  /\ lastOp.user = "readwrite"
  /\ lastOp.res = "login_denied"

\* C10 as stated: from the two REVOKE statements onward PUBLIC holds no
\* privilege on database crime_db and none on schema public, and the login
\* role that is in neither group cannot connect to crime_db.
C10_RevokedOnExecution ==
  (Executed(440) /\ Executed(441)) =>
    \A cat \in {db, SessionCat} :
      /\ \A a \in cat.dbAcl : a[1] # PUBLIC
      /\ \A a \in cat.schemaAcl : ~(a[1] = "public" /\ a[2] = PUBLIC)
      /\ ~HasDbPriv(cat, Outsider, "CONNECT")

\* C10 amended: from the two REVOKE statements onward PUBLIC holds no
\* privilege on database crime_db and none on schema public inside the
\* notebook's transaction, whatever statement follows; once conn.commit()
\* has run the same holds for every session, so the login role that is in
\* neither group cannot connect to crime_db.
C10_PublicRevoked ==
  /\ (Executed(440) /\ Executed(441)) =>
       /\ \A a \in SessionCat.dbAcl : a[1] # PUBLIC
       /\ \A a \in SessionCat.schemaAcl : ~(a[1] = "public" /\ a[2] = PUBLIC)
       /\ ~HasDbPriv(SessionCat, Outsider, "CONNECT")
  /\ Executed(520) =>
       /\ \A a \in db.dbAcl : a[1] # PUBLIC
       /\ \A a \in db.schemaAcl : ~(a[1] = "public" /\ a[2] = PUBLIC)
       /\ Grantees(db, Outsider) \cap Groups = {}
       /\ ~HasDbPriv(db, Outsider, "CONNECT")
       /\ \A op \in TablePrivs : Access(db, Outsider, op) = "connect_denied"

\* C10 witness: after a complete run a session of the outsider role was
\* refused the connection.
C10_Witness ==
  /\ Completed
  /\ lastOp.user = Outsider
  /\ lastOp.res = "connect_denied"

\* the schemas PostgreSQL itself puts in every database
SystemSchemas == {"pg_catalog", "information_schema", "public"}

\* C11: after provisioning, crimes is the only schema of crime_db that the
\* notebook created and boston_crimes the only table, held by schema crimes:
\* so it is in the notebook's session from CREATE TABLE on, so it is
\* committed when the notebook completes, and so the two verification
\* queries of the new connection report it.
C11_ProvisionedStructure ==
  /\ Executed(367) =>
       /\ SessionCat.schemas \ SystemSchemas = {"crimes"}
       /\ SessionCat.tables = {BostonCrimes}
  /\ Executed(520) =>
       /\ db.schemas \ SystemSchemas = {"crimes"}
       /\ db.tables = {BostonCrimes}
  /\ (Executed(570) /\ ~Executed(603)) =>
       /\ "crimes" \in results
       /\ results \ SystemSchemas = {"crimes"}
  /\ (Executed(603) /\ ~Executed(635)) => results = {BostonCrimes}

\* C11 witness: the tables query of the new connection has just returned
\* the single table crimes.boston_crimes from the committed catalog.
C11_Witness ==
  /\ Executed(603)
  /\ ~Executed(635)
  /\ conn = 568
  /\ results = {BostonCrimes}
  /\ db.schemas = {"public", "crimes"}

\* what field k of a record, with text t, denotes
FieldValue(k, t) ==
  IF t = "" THEN Null
  ELSE CASE k \in {1, 2} -> IntegerIn(t).val
         [] k \in {3, 5} -> <<t>>
         [] k = 4        -> DateIn(t).val
         [] k \in {6, 7} -> DecimalIn(t).val

\* row holds the fields of line, each in the column the file's header names
\* at that position
Holds(row, line) == \A k \in 1..Len(Header) : row[Header[k]] = FieldValue(k, line[k])

\* C12: once COPY ... WITH CSV HEADER has completed, crimes.boston_crimes
\* holds exactly one row per data record of the file and none for the
\* header line; each row's seven columns hold that record's seven fields in
\* file order, the incident_number being the file's; the records the
\* notebook prints are loaded without error, a COPY that raises loads
\* nothing, and SELECT ... LIMIT 3 shows rows of the table.
C12_CopyLoadsFile ==
  /\ copyPc \in {"copied", "shown"} =>
       /\ Cardinality(loaded) = Len(csv) - 1
       /\ \A i \in 2..Len(csv) : Cardinality({r \in loaded : Holds(r, csv[i])}) = 1
       /\ \A r \in loaded :
            \E i \in 2..Len(csv) :
              Holds(r, csv[i]) /\ r.incident_number = IntegerIn(csv[i][1]).val
  /\ copyPc = "failed" => (loaded = {} /\ copyErr # "")
  /\ (\E n \in 0..Len(FileRecords) : Tail(csv) = SubSeq(FileRecords, 1, n))
       => copyPc # "failed"
  /\ copyPc = "shown" =>
       /\ fetched \subseteq loaded
       /\ Cardinality(fetched) = IF Len(csv) - 1 < 3 THEN Len(csv) - 1 ELSE 3

\* C12 witness: a file of a header and two records has been copied and
\* shown: the table holds the two records, incident numbers 1 and 2 with
\* their own longitudes, and no row for the header.
C12_Witness ==
  /\ copyPc = "shown"
  /\ csv = FirstRecords(2)
  /\ Cardinality(loaded) = 2
  /\ fetched = loaded
  /\ \E r \in loaded :
       /\ r.incident_number = <<2>>
       /\ r.description = <<"VANDALISM">>
       /\ r.long = <<[neg |-> TRUE, int |-> 71, frac |-> "06030035"]>>

\* ------------------------------------------- the Chinook notebook's queries
\* the cell has run in the run in notebook order
Ran(name) == \E k \in 1..(cell - 1) : CodeCells[k] = name

InvoiceIds == {i.invoice_id : i \in store.invoice}
\* the tracks the lines of invoice i name, and the invoices that have lines
BoughtTracks(i) ==
  {l.track_id : l \in {m \in store.invoice_line : m.invoice_id = i}}
WithLines == {i \in InvoiceIds : BoughtTracks(i) # {}}
\* the tracks of album a, and the albums the tracks of invoice i are on
AlbumTracks(a) == {t.track_id : t \in {u \in store.track : u.album_id = a}}
AlbumsOf(i) ==
  {t.album_id : t \in {u \in store.track : u.track_id \in BoughtTracks(i)}}
\* the lines of invoice i name tracks of exactly one album, as many distinct
\* tracks as the album has
OneAlbumInFull(i) ==
  \E a \in AlbumsOf(i) :
    /\ AlbumsOf(i) = {a}
    /\ Cardinality(BoughtTracks(i)) = Cardinality(AlbumTracks(a))
\* the distinct tracks of invoice i are the track set of an album
WholeAlbum(i) ==
  \E a \in {t.album_id : t \in store.track} : BoughtTracks(i) = AlbumTracks(a)
\* the invoices the query's branches classify
ClassifiedAs(p) ==
  {r.invoice_id : r \in {c \in Classified(store) : c.album_purchase = p}}
\* the rows the albums cell shows for a classification, and their columns
AlbumRows(p) == {r \in shown["albums"] : r.album_purchase = p}
AlbumCount(p) ==
  IF AlbumRows(p) = {} THEN 0
  ELSE (CHOOSE r \in AlbumRows(p) : TRUE).number_of_invoices
AlbumPercent(p) ==
  IF AlbumRows(p) = {} THEN 0 ELSE (CHOOSE r \in AlbumRows(p) : TRUE).percent

\* C13: the album query classifies an invoice as 'yes' exactly when its lines
\* name tracks of exactly one album and as many distinct tracks as that album
\* has, which is exactly when the set of its distinct tracks is the whole
\* track set of one album; the 'yes' row counts those invoices.
C13_AlbumPurchase ==
  Ran("albums") =>
    /\ ClassifiedAs("yes") = {i \in InvoiceIds : OneAlbumInFull(i)}
    /\ \A i \in InvoiceIds : OneAlbumInFull(i) <=> WholeAlbum(i)
    /\ Cardinality(AlbumRows("yes")) <= 1
    /\ AlbumCount("yes") = Cardinality({i \in InvoiceIds : WholeAlbum(i)})

\* the albums cell has shown a 'yes' invoice that bought both tracks of an
\* album of two
C13_Witness ==
  /\ Ran("albums")
  /\ AlbumCount("yes") = 1
  /\ \E i \in ClassifiedAs("yes") :
       /\ Cardinality(BoughtTracks(i)) = 2
       /\ \E a \in AlbumsOf(i) : Cardinality(AlbumTracks(a)) = 2

\* C14 as stated: every invoice is counted in exactly one of the two groups,
\* the two counts add up to the rows of invoice and the two percents to 1.
C14_PartitionOfInvoices ==
  (Ran("albums") /\ store.invoice # {}) =>
     /\ ClassifiedAs("yes") \cap ClassifiedAs("no") = {}
     /\ ClassifiedAs("yes") \cup ClassifiedAs("no") = InvoiceIds
     /\ AlbumCount("yes") + AlbumCount("no") = Cardinality(store.invoice)
     /\ AlbumPercent("yes") + AlbumPercent("no") = 1000

\* C14, amended: every invoice that has a line is in exactly one of the two
\* groups and an invoice without lines is in neither, so the counts add up to
\* the number of invoices with lines; each percent is its count over the rows
\* of invoice to within half a thousandth, so the two percents add up to the
\* share of invoices with lines to within a thousandth.
C14_PartitionOfInvoicesWithLines ==
  (Ran("albums") /\ store.invoice # {}) =>
    LET n == Cardinality(store.invoice)
        off(p) == n * AlbumPercent(p) - 1000 * AlbumCount(p)
    IN  /\ ClassifiedAs("yes") \cap ClassifiedAs("no") = {}
        /\ ClassifiedAs("yes") \cup ClassifiedAs("no") = WithLines
        /\ AlbumCount("yes") + AlbumCount("no") = Cardinality(WithLines)
        /\ \A p \in {"yes", "no"} : 2 * off(p) <= n /\ 2 * off(p) > -n
        /\ off("yes") + off("no") <= n
        /\ off("yes") + off("no") >= -n

\* the albums cell has counted one of two invoices, the other has no lines
C14_Witness ==
  /\ Ran("albums")
  /\ Cardinality(store.invoice) = 2
  /\ Cardinality(WithLines) = 1
  /\ AlbumCount("yes") + AlbumCount("no") = 1
  /\ AlbumPercent("yes") + AlbumPercent("no") = 500

\* the customers that have an invoice, and those of them living in a country
InvoicingCustomers ==
  {c \in store.customer : \E i \in store.invoice : i.customer_id = c.customer_id}
CustomersIn(co) == {c \in InvoicingCustomers : c.country = co}
InvoicingCountries == {c.country : c \in InvoicingCustomers}
LargeCountryNames == {co \in InvoicingCountries : Cardinality(CustomersIn(co)) > 1}
SmallCountryNames == {co \in InvoicingCountries : Cardinality(CustomersIn(co)) = 1}
\* the invoice totals of the customers of a set of countries
SalesIn(cos) ==
  LET I == {i \in store.invoice :
              \E c \in store.customer :
                c.customer_id = i.customer_id /\ c.country \in cos}
  IN  Sum([i \in I |-> i.total], I)
\* the rows the countries cell shows for a country
CountryRows(co) ==
  {k \in DOMAIN shown["countries"] : shown["countries"][k].country = NotNull(co)}
\* a column that may be NULL, counted as nothing when it is
OrZero(v) == IF v = Null THEN 0 ELSE v[1]

\* C15: the country query shows one row for every country with more than one
\* invoicing customer and none for a country with exactly one; it shows
\* exactly one 'Other' row, whose number_of_customers and total_sales are the
\* sums over the countries with exactly one; number_of_customers over all
\* rows adds up to the number of distinct customers that have an invoice.
C15_OtherRow ==
  Ran("countries") =>
    LET q == shown["countries"]
        other == CountryRows("Other")
    IN  /\ Len(q) = Cardinality(LargeCountryNames) + 1
        /\ \A co \in LargeCountryNames :
             /\ Cardinality(CountryRows(co)) = 1
             /\ \A k \in CountryRows(co) :
                  /\ q[k].number_of_customers = NotNull(Cardinality(CustomersIn(co)))
                  /\ q[k].total_sales = NotNull(SalesIn({co}))
        /\ \A co \in SmallCountryNames : CountryRows(co) = {}
        /\ Cardinality(other) = 1
        /\ \A k \in other :
             /\ OrZero(q[k].number_of_customers) = Cardinality(SmallCountryNames)
             /\ OrZero(q[k].total_sales) = SalesIn(SmallCountryNames)
             /\ q[k].number_of_customers = Null <=> SmallCountryNames = {}
        /\ Sum([k \in DOMAIN q |-> OrZero(q[k].number_of_customers)], DOMAIN q)
             = Cardinality(InvoicingCustomers)

\* the countries cell has shown a country of two customers on its own row and
\* two countries of one customer each collapsed into 'Other'
C15_Witness ==
  /\ Ran("countries")
  /\ Cardinality(LargeCountryNames) = 1
  /\ Cardinality(SmallCountryNames) = 2
  /\ Len(shown["countries"]) = 2
  /\ shown["countries"][2].country = NotNull("Other")
  /\ shown["countries"][2].number_of_customers = NotNull(2)

\* the invoice lines whose track belongs to a genre of the set gs
LinesOfGenres(gs) ==
  {l \in store.invoice_line :
     \E t \in store.track : t.track_id = l.track_id /\ t.genre_id \in gs}
Quantity(L) == Sum([l \in L |-> l.quantity], L)
SoldGenres ==
  {g \in store.genre : LinesOfGenres({g.genre_id}) # {}}
\* the genres bearing a name
Named(n) == {g.genre_id : g \in {h \in store.genre : h.name = n}}
GenresShownDescending ==
  \A i, j \in DOMAIN shown["genres"] :
    i < j => shown["genres"][i].tracks_sold >= shown["genres"][j].tracks_sold
GenresShownTotal ==
  Sum([k \in DOMAIN shown["genres"] |-> shown["genres"][k].tracks_sold],
      DOMAIN shown["genres"])

\* C16 as stated: for each genre a row with tracks_sold the sum of quantity
\* over the lines whose track belongs to the genre and percentage exactly
\* 100 * tracks_sold / (the sum of tracks_sold); rows in descending order of
\* tracks_sold; the tracks_sold values add up to the quantity of all lines.
C16_GenreShares ==
  Ran("genres") =>
    LET q == shown["genres"]
    IN  /\ \A g \in SoldGenres :
             \E k \in DOMAIN q :
               /\ q[k].genre = g.name
               /\ q[k].tracks_sold = Quantity(LinesOfGenres({g.genre_id}))
               /\ q[k].percentage * GenresShownTotal = 100 * 100 * q[k].tracks_sold
        /\ GenresShownDescending
        /\ GenresShownTotal = Quantity(store.invoice_line)

\* C16, amended: one row for each name of a genre with sold tracks, with
\* tracks_sold the sum of quantity over the lines whose track's genre bears
\* that name and percentage 100 * tracks_sold / (the sum of tracks_sold)
\* rounded to two decimals, a half rounding up; rows in descending order of
\* tracks_sold; the tracks_sold values add up to the quantity of all lines.
C16_GenreSharesRounded ==
  Ran("genres") =>
    LET q == shown["genres"]
        names == {g.name : g \in SoldGenres}
    IN  /\ Len(q) = Cardinality(names)
        /\ {q[k].genre : k \in DOMAIN q} = names
        /\ \A k \in DOMAIN q :
             LET off == q[k].percentage * GenresShownTotal
                          - 100 * 100 * q[k].tracks_sold
             IN  /\ q[k].tracks_sold = Quantity(LinesOfGenres(Named(q[k].genre)))
                 /\ 2 * off <= GenresShownTotal
                 /\ 2 * off > -GenresShownTotal
        /\ GenresShownDescending
        /\ GenresShownTotal = Quantity(store.invoice_line)

\* the genres cell has shown two genres sharing three sold tracks: 66.67 and
\* 33.33 percent, the first for a line of quantity two
C16_Witness ==
  /\ Ran("genres")
  /\ Len(shown["genres"]) = 2
  /\ shown["genres"][1].tracks_sold = 2
  /\ shown["genres"][1].percentage = 6667
  /\ shown["genres"][2].percentage = 3333
  /\ Cardinality(store.invoice_line) = 2

\* the name the employee query gives an employee
FullName(e) == NotNull(e.first_name \o " " \o e.last_name)
\* the invoices of the customers whose support representative is in the set es
InvoicesOfReps(es) ==
  {i \in store.invoice :
     \E c \in store.customer :
       /\ c.customer_id = i.customer_id
       /\ c.support_rep_id \in {e.employee_id : e \in es}}
SalesOfReps(es) ==
  Sum([i \in InvoicesOfReps(es) |-> i.total], InvoicesOfReps(es))
\* the employees that are the support representative of an invoicing customer
SellingReps == {e \in store.employee : InvoicesOfReps({e}) # {}}
EmployeeRows(n) == {r \in shown["employees"] : r.employee_name = n}

C18_RerunsComplete == cell = AllRun => sqlErr = ""

\* C19: a statement that raises changes nothing but the error the run stops
\* with; from then on, until the notebook is started again, no statement
\* runs, the raising one is not run again, and what took effect before the
\* error stays as it is.
C19_ErrorsPropagate ==
  [][/\ (err = "" /\ err' # "") =>
          UNCHANGED <<pc, log, db, txn, conns, conn, cur, results>>
     /\ (err # "" /\ run' = run) =>
          UNCHANGED <<err, pc, log, db, txn, conns, conn, cur, results>>]_vars

\* a statement of the first run has raised after CREATE DATABASE, which was
\* committed at once: crime_db is still there
C19_Witness ==
  /\ err # ""
  /\ run = 1
  /\ \E i \in DOMAIN log : log[i].op = "create_database"
  /\ txn = NoTxn
  /\ "crime_db" \in db.databases

====
